---- MODULE Spec2Model ----
(***************************************************************************)
(* APON.js: APON.parse (text -> value tree) and APON.stringify (value tree *)
(* -> text), modelled from lib/apon.js.                                    *)
(*                                                                         *)
(* A JavaScript string is a sequence of one-character strings.  A value    *)
(* is a record tagged by t: "undefined", "null", "bool", "num", "str",     *)
(* "map" (own enumerable properties, in Object.keys order) or "seq".       *)
(* A Number is m / 10^e with e = 0 or m not divisible by 10.               *)
(***************************************************************************)
EXTENDS Integers, Sequences, FiniteSets, TLC

----------------------------------------------------------------------------
(* The format's literal characters.                                        *)

COMMENT_LINE_START == "#"
NAME_VALUE_SEPARATOR == ":"
CURLY_BRACKET_OPEN == "{"
CURLY_BRACKET_CLOSE == "}"
SQUARE_BRACKET_OPEN == "["
SQUARE_BRACKET_CLOSE == "]"
ROUND_BRACKET_OPEN == "("
ROUND_BRACKET_CLOSE == ")"
TEXT_LINE_START == "|"
DOUBLE_QUOTE_CHAR == "\""
SINGLE_QUOTE_CHAR == "'"
ESCAPE_CHAR == "\\"

LF == "\n"
CR == "\r"
TAB == "\t"
SPACE == " "

----------------------------------------------------------------------------
(* JavaScript String primitives, on sequences of characters.               *)

\* The white space String.prototype.trim and the regex class \s remove,
\* among the characters the model uses.
WhiteSpace == {SPACE, TAB, LF, CR}

RECURSIVE trimStart(_)
trimStart(s) ==
    IF s # <<>> /\ Head(s) \in WhiteSpace THEN trimStart(Tail(s)) ELSE s

RECURSIVE trimEnd(_)
trimEnd(s) ==
    IF s # <<>> /\ s[Len(s)] \in WhiteSpace
    THEN trimEnd(SubSeq(s, 1, Len(s) - 1))
    ELSE s

trim(s) == trimEnd(trimStart(s))

startsWith(s, p) == Len(s) >= Len(p) /\ SubSeq(s, 1, Len(p)) = p

endsWith(s, p) == Len(s) >= Len(p) /\ SubSeq(s, Len(s) - Len(p) + 1, Len(s)) = p

includes(s, c) == \E k \in 1..Len(s) : s[k] = c

\* String.prototype.indexOf for one character: 0-based, -1 when absent.
indexOf(s, c) ==
    IF includes(s, c)
    THEN (CHOOSE k \in 1..Len(s) : s[k] = c /\ \A j \in 1..(k - 1) : s[j] # c) - 1
    ELSE -1

Clamp(x, n) == IF x < 0 THEN 0 ELSE IF x > n THEN n ELSE x

\* String.prototype.substring(a, b): 0-based, arguments clamped to
\* [0, length] and swapped when a > b.
substring(s, a, b) ==
    LET ca == Clamp(a, Len(s))
        cb == Clamp(b, Len(s))
        lo == IF ca < cb THEN ca ELSE cb
        hi == IF ca < cb THEN cb ELSE ca
    IN SubSeq(s, lo + 1, hi)

substringFrom(s, a) == substring(s, a, Len(s))

\* String.prototype.replace with a global literal pattern: matches are
\* found left to right and do not overlap.
RECURSIVE replaceAll(_, _, _)
replaceAll(s, pat, rep) ==
    IF s = <<>> THEN <<>>
    ELSE IF startsWith(s, pat)
         THEN rep \o replaceAll(SubSeq(s, Len(pat) + 1, Len(s)), pat, rep)
         ELSE <<Head(s)>> \o replaceAll(Tail(s), pat, rep)

\* String.prototype.replace with a non-global pattern: the first match only.
RECURSIVE replaceFirst(_, _, _)
replaceFirst(s, pat, rep) ==
    IF s = <<>> THEN <<>>
    ELSE IF startsWith(s, pat)
         THEN rep \o SubSeq(s, Len(pat) + 1, Len(s))
         ELSE <<Head(s)>> \o replaceFirst(Tail(s), pat, rep)

\* String.prototype.split on one character.
RECURSIVE splitOn(_, _)
splitOn(s, c) ==
    IF ~includes(s, c) THEN <<s>>
    ELSE LET k == indexOf(s, c)
         IN <<SubSeq(s, 1, k)>> \o splitOn(SubSeq(s, k + 2, Len(s)), c)

\* text.split(/\r?\n/): a carriage return right before a line feed belongs
\* to the separator.
splitLines(text) ==
    LET raw == splitOn(text, LF)
    IN [k \in 1..Len(raw) |->
          IF k < Len(raw) /\ endsWith(raw[k], <<CR>>)
          THEN SubSeq(raw[k], 1, Len(raw[k]) - 1)
          ELSE raw[k]]

\* Array.prototype.join.
RECURSIVE join(_, _)
join(parts, sep) ==
    IF parts = <<>> THEN <<>>
    ELSE IF Len(parts) = 1 THEN parts[1]
    ELSE parts[1] \o sep \o join(Tail(parts), sep)

\* String.prototype.repeat.
RECURSIVE repeat(_, _)
repeat(s, n) == IF n <= 0 THEN <<>> ELSE s \o repeat(s, n - 1)

UpperCase ==
    {"A", "B", "C", "D", "E", "F", "G", "H", "I", "J", "K", "L", "M",
     "N", "O", "P", "Q", "R", "S", "T", "U", "V", "W", "X", "Y", "Z"}

lowerChar(c) ==
    CASE c = "A" -> "a" [] c = "B" -> "b" [] c = "C" -> "c" [] c = "D" -> "d"
      [] c = "E" -> "e" [] c = "F" -> "f" [] c = "G" -> "g" [] c = "H" -> "h"
      [] c = "I" -> "i" [] c = "J" -> "j" [] c = "K" -> "k" [] c = "L" -> "l"
      [] c = "M" -> "m" [] c = "N" -> "n" [] c = "O" -> "o" [] c = "P" -> "p"
      [] c = "Q" -> "q" [] c = "R" -> "r" [] c = "S" -> "s" [] c = "T" -> "t"
      [] c = "U" -> "u" [] c = "V" -> "v" [] c = "W" -> "w" [] c = "X" -> "x"
      [] c = "Y" -> "y" [] c = "Z" -> "z" [] OTHER -> c

toLowerCase(s) == [k \in 1..Len(s) |-> lowerChar(s[k])]

----------------------------------------------------------------------------
(* Values.                                                                 *)

Undefined == [t |-> "undefined"]
Null == [t |-> "null"]
Bool(b) == [t |-> "bool", b |-> b]
Num(m, e) == [t |-> "num", m |-> m, e |-> e]
IntNum(n) == Num(n, 0)
Str(s) == [t |-> "str", s |-> s]
Map(kv) == [t |-> "map", kv |-> kv]
Arr(el) == [t |-> "seq", el |-> el]
Entry(k, v) == [k |-> k, v |-> v]

isString(v) == v.t = "str"
isArray(v) == v.t = "seq"
\* typeof v === 'object': null, plain objects and arrays.
typeofObject(v) == v.t \in {"null", "map", "seq"}

----------------------------------------------------------------------------
(* Numbers: Number(string), isNaN, parseInt, parseFloat, String(number).   *)

Digits == {"0", "1", "2", "3", "4", "5", "6", "7", "8", "9"}

digitVal(c) ==
    CASE c = "0" -> 0 [] c = "1" -> 1 [] c = "2" -> 2 [] c = "3" -> 3
      [] c = "4" -> 4 [] c = "5" -> 5 [] c = "6" -> 6 [] c = "7" -> 7
      [] c = "8" -> 8 [] c = "9" -> 9

digitChar(d) ==
    CASE d = 0 -> "0" [] d = 1 -> "1" [] d = 2 -> "2" [] d = 3 -> "3"
      [] d = 4 -> "4" [] d = 5 -> "5" [] d = 6 -> "6" [] d = 7 -> "7"
      [] d = 8 -> "8" [] d = 9 -> "9"

allDigits(s) == \A k \in 1..Len(s) : s[k] \in Digits

RECURSIVE digitsVal(_)
digitsVal(s) ==
    IF s = <<>> THEN 0
    ELSE 10 * digitsVal(SubSeq(s, 1, Len(s) - 1)) + digitVal(s[Len(s)])

RECURSIVE pow10(_)
pow10(n) == IF n <= 0 THEN 1 ELSE 10 * pow10(n - 1)

RECURSIVE normNum(_, _)
normNum(m, e) ==
    IF m = 0 THEN Num(0, 0)
    ELSE IF e > 0 /\ m % 10 = 0 THEN normNum(m \div 10, e - 1)
    ELSE Num(m, e)

hasSign(s) == s # <<>> /\ Head(s) \in {"+", "-"}
unsigned(s) == IF hasSign(s) THEN Tail(s) ELSE s
signOf(s) == IF s # <<>> /\ Head(s) = "-" THEN -1 ELSE 1

\* StrDecimalLiteral without an exponent: digits, digits "." digits* or
\* "." digits, after an optional sign.  (Exponents, Infinity and the 0x, 0o
\* and 0b forms use characters outside the strings of this model.)
isDecimalLiteral(s) ==
    LET u == unsigned(s)
        dot == indexOf(u, ".")
        ip == IF dot = -1 THEN u ELSE SubSeq(u, 1, dot)
        fp == IF dot = -1 THEN <<>> ELSE SubSeq(u, dot + 2, Len(u))
    IN /\ allDigits(ip)
       /\ allDigits(fp)
       /\ Len(ip) + Len(fp) > 0

decimalValue(s) ==
    LET u == unsigned(s)
        dot == indexOf(u, ".")
        ip == IF dot = -1 THEN u ELSE SubSeq(u, 1, dot)
        fp == IF dot = -1 THEN <<>> ELSE SubSeq(u, dot + 2, Len(u))
    IN normNum(signOf(s) * digitsVal(ip \o fp), Len(fp))

\* isNaN(Number(s)) for a string s: Number trims, and reads "" as 0.
isNaN(s) == trim(s) # <<>> /\ ~isDecimalLiteral(trim(s))

\* Number(s), where it is not NaN.
Number(s) == IF trim(s) = <<>> THEN Num(0, 0) ELSE decimalValue(trim(s))

\* parseInt(s, 10): the longest run of digits after the optional sign.
RECURSIVE digitPrefix(_)
digitPrefix(s) ==
    IF s # <<>> /\ Head(s) \in Digits
    THEN <<Head(s)>> \o digitPrefix(Tail(s))
    ELSE <<>>

parseInt(s) ==
    LET w == trimStart(s)
    IN Num(signOf(w) * digitsVal(digitPrefix(unsigned(w))), 0)

\* parseFloat(s), on a string that is a decimal literal.
parseFloat(s) == decimalValue(trimStart(s))

RECURSIVE natToStr(_)
natToStr(n) ==
    IF n < 10 THEN <<digitChar(n)>>
    ELSE natToStr(n \div 10) \o <<digitChar(n % 10)>>

RECURSIVE padLeft(_, _)
padLeft(s, n) == IF Len(s) >= n THEN s ELSE padLeft(<<"0">> \o s, n)

\* String(number), in the range where no exponent is printed.
numberToString(v) ==
    LET a == IF v.m < 0 THEN -v.m ELSE v.m
        sign == IF v.m < 0 THEN <<"-">> ELSE <<>>
    IN IF v.e = 0 THEN sign \o natToStr(a)
       ELSE sign \o natToStr(a \div pow10(v.e)) \o <<".">>
                 \o padLeft(natToStr(a % pow10(v.e)), v.e)

----------------------------------------------------------------------------
(* APON.parse: the helpers of the parser.                                  *)

\* A type hint is null or a string; `typeHint ? ... : ...` tests that it
\* is a non-empty string.
truthyHint(typeHint) == typeHint.t = "str" /\ typeHint.s # <<>>

Lit(x) == IF x = "string" THEN <<"s", "t", "r", "i", "n", "g">>
          ELSE IF x = "number" THEN <<"n", "u", "m", "b", "e", "r">>
          ELSE IF x = "int" THEN <<"i", "n", "t">>
          ELSE IF x = "long" THEN <<"l", "o", "n", "g">>
          ELSE IF x = "float" THEN <<"f", "l", "o", "a", "t">>
          ELSE IF x = "double" THEN <<"d", "o", "u", "b", "l", "e">>
          ELSE IF x = "boolean" THEN <<"b", "o", "o", "l", "e", "a", "n">>
          ELSE IF x = "null" THEN <<"n", "u", "l", "l">>
          ELSE IF x = "true" THEN <<"t", "r", "u", "e">>
          ELSE IF x = "false" THEN <<"f", "a", "l", "s", "e">>
          ELSE IF x = "undefined"
               THEN <<"u", "n", "d", "e", "f", "i", "n", "e", "d">>
          ELSE <<>>

NumberHints == {Lit("number"), Lit("int"), Lit("long"), Lit("float"), Lit("double")}

castValue(value, typeHint) ==
    IF typeHint = Lit("string") THEN Str(value)
    ELSE IF typeHint \in NumberHints
         THEN IF value = <<>> \/ isNaN(value) THEN Str(value) ELSE Number(value)
    ELSE IF typeHint = Lit("boolean")
         THEN Bool(toLowerCase(value) = Lit("true"))
    ELSE Str(value)

\* The regular expressions /\"/g and /\'/ match a bare quote (the backslash
\* escapes nothing), so the first two replacements put back what they find.
unescapeString(str) ==
    LET s1 == replaceAll(str, <<DOUBLE_QUOTE_CHAR>>, <<DOUBLE_QUOTE_CHAR>>)
        s2 == replaceFirst(s1, <<SINGLE_QUOTE_CHAR>>, <<SINGLE_QUOTE_CHAR>>)
        s3 == replaceAll(s2, <<ESCAPE_CHAR, "n">>, <<LF>>)
        s4 == replaceAll(s3, <<ESCAPE_CHAR, "t">>, <<TAB>>)
    IN replaceAll(s4, <<ESCAPE_CHAR, ESCAPE_CHAR>>, <<ESCAPE_CHAR>>)

isQuoted(value) ==
    \/ startsWith(value, <<DOUBLE_QUOTE_CHAR>>) /\ endsWith(value, <<DOUBLE_QUOTE_CHAR>>)
    \/ startsWith(value, <<SINGLE_QUOTE_CHAR>>) /\ endsWith(value, <<SINGLE_QUOTE_CHAR>>)

\* A variant of parseValue that infers null, true and false from an unquoted
\* token before it looks at the type hint.
parseValueInferFirst(raw, typeHint) ==
    LET value == trim(raw)
        unescaped == unescapeString(substring(value, 1, Len(value) - 1))
    IN IF isQuoted(value)
       THEN IF truthyHint(typeHint) THEN castValue(unescaped, typeHint.s)
            ELSE Str(unescaped)
       ELSE IF value = Lit("null") THEN Null
       ELSE IF value = Lit("true") THEN Bool(TRUE)
       ELSE IF value = Lit("false") THEN Bool(FALSE)
       ELSE IF truthyHint(typeHint) THEN castValue(value, typeHint.s)
       ELSE IF ~isNaN(value) /\ trim(value) # <<>>
            THEN IF includes(value, ".") THEN parseFloat(value) ELSE parseInt(value)
       ELSE Str(value)

parseValue(raw, typeHint) ==
    LET value == trim(raw)
        unescaped == unescapeString(substring(value, 1, Len(value) - 1))
    IN IF isQuoted(value)
       THEN IF truthyHint(typeHint) THEN castValue(unescaped, typeHint.s)
            ELSE Str(unescaped)
       ELSE IF truthyHint(typeHint) THEN castValue(value, typeHint.s)
       ELSE IF value = Lit("null") THEN Null
       ELSE IF value = Lit("true") THEN Bool(TRUE)
       ELSE IF value = Lit("false") THEN Bool(FALSE)
       ELSE IF ~isNaN(value) /\ trim(value) # <<>>
            THEN IF includes(value, ".") THEN parseFloat(value) ELSE parseInt(value)
       ELSE Str(value)

\* An integer index: the canonical decimal form of a non-negative integer.
\* Object.keys lists such property names first, in ascending order, and
\* the others after them in the order they were created.
isIndexKey(name) ==
    /\ name # <<>>
    /\ allDigits(name)
    /\ (Len(name) > 1 => Head(name) # "0")

hasKey(kv, name) == \E k \in 1..Len(kv) : kv[k].k = name

\* obj[name] = v on the own properties kv of a plain object.
objSet(kv, name, v) ==
    IF hasKey(kv, name)
    THEN [k \in 1..Len(kv) |-> IF kv[k].k = name THEN Entry(name, v) ELSE kv[k]]
    ELSE IF isIndexKey(name)
         THEN LET before == SelectSeq(kv, LAMBDA en :
                                isIndexKey(en.k) /\ digitsVal(en.k) < digitsVal(name))
              IN before \o <<Entry(name, v)>> \o SubSeq(kv, Len(before) + 1, Len(kv))
    ELSE Append(kv, Entry(name, v))

objGet(kv, name) ==
    IF hasKey(kv, name) THEN (CHOOSE en \in {kv[k] : k \in 1..Len(kv)} : en.k = name).v
    ELSE Undefined

\* A variant that skips blank lines only.
isBlankOnly(line) == line = <<>>

\* A variant that skips comments only.
isCommentOnly(line) == startsWith(line, <<COMMENT_LINE_START>>)

isBlankOrComment(line) == line = <<>> \/ startsWith(line, <<COMMENT_LINE_START>>)

\* The first part of a mapping entry line: the name and its type hint.
entryName(line) ==
    LET separatorIndex == indexOf(line, NAME_VALUE_SEPARATOR)
        name == trim(substring(line, 0, separatorIndex))
        typeHintIndex == indexOf(name, ROUND_BRACKET_OPEN)
    IN IF typeHintIndex > 0 /\ endsWith(name, <<ROUND_BRACKET_CLOSE>>)
       THEN [name |-> substring(name, 0, typeHintIndex),
             typeHint |-> Str(toLowerCase(substring(name, typeHintIndex + 1, Len(name) - 1)))]
       ELSE [name |-> name, typeHint |-> Null]

entryValue(line) == trim(substringFrom(line, indexOf(line, NAME_VALUE_SEPARATOR) + 1))

----------------------------------------------------------------------------
(* APON.stringify.                                                         *)

\* The options argument: undefined, a number of spaces, or an object whose
\* indent property is any value.
NoOptions == Undefined
IndentOption(v) == [t |-> "options", indent |-> v]

indentStringOf(options) ==
    IF options.t = "num" THEN repeat(<<SPACE>>, options.m)
    ELSE IF options.t = "options" /\ options.indent.t = "str" THEN options.indent.s
    ELSE <<SPACE, SPACE>>

QuoteChars ==
    {CURLY_BRACKET_OPEN, CURLY_BRACKET_CLOSE, NAME_VALUE_SEPARATOR, COMMENT_LINE_START,
     DOUBLE_QUOTE_CHAR, SINGLE_QUOTE_CHAR, ESCAPE_CHAR,
     SQUARE_BRACKET_OPEN, SQUARE_BRACKET_CLOSE}

\* A variant that lets numeric-like strings through.
needsQuotesNoNumeric(str) ==
    \/ Len(str) = 0
    \/ trim(str) # str
    \/ \E k \in 1..Len(str) : str[k] \in QuoteChars
    \/ startsWith(trimStart(str), <<ROUND_BRACKET_OPEN>>)
    \/ str \in {Lit("null"), Lit("true"), Lit("false")}

needsQuotes(str) ==
    \/ Len(str) = 0
    \/ trim(str) # str
    \/ \E k \in 1..Len(str) : str[k] \in QuoteChars
    \/ startsWith(trimStart(str), <<ROUND_BRACKET_OPEN>>)
    \/ str \in {Lit("null"), Lit("true"), Lit("false")}
    \/ ~isNaN(str) /\ trim(str) # <<>>

\* The replacement '\"' is the one-character string of a double quote, so
\* the second replacement puts back what it finds.
escapeString(str) ==
    LET s1 == replaceAll(str, <<ESCAPE_CHAR>>, <<ESCAPE_CHAR, ESCAPE_CHAR>>)
        s2 == replaceAll(s1, <<DOUBLE_QUOTE_CHAR>>, <<DOUBLE_QUOTE_CHAR>>)
    IN replaceAll(s2, <<LF>>, <<ESCAPE_CHAR, "n">>)

\* String(value) for the values that are neither null, a string nor an object.
toStr(value) ==
    IF value.t = "bool" THEN (IF value.b THEN Lit("true") ELSE Lit("false"))
    ELSE IF value.t = "num" THEN numberToString(value)
    ELSE Lit("undefined")

RECURSIVE stringifyValue(_, _, _)
RECURSIVE stringifyObject(_, _, _)

stringifyValue(value, indent, indentString) ==
    IF value.t = "null" THEN Lit("null")
    ELSE IF value.t = "str"
         THEN IF includes(value.s, LF)
              THEN LET lines == splitOn(value.s, LF)
                       content == [k \in 1..Len(lines) |->
                                     indent \o indentString \o <<TEXT_LINE_START>> \o lines[k]]
                   IN <<ROUND_BRACKET_OPEN, LF>> \o join(content, <<LF>>)
                        \o <<LF>> \o indent \o <<ROUND_BRACKET_CLOSE>>
              ELSE IF needsQuotes(value.s)
                   THEN <<DOUBLE_QUOTE_CHAR>> \o escapeString(value.s) \o <<DOUBLE_QUOTE_CHAR>>
                   ELSE value.s
    ELSE IF value.t \in {"map", "seq"} THEN stringifyObject(value, indent, indentString)
    ELSE toStr(value)

stringifyObject(obj, indent, indentString) ==
    LET newIndent == indent \o indentString
    IN IF isArray(obj)
       THEN IF Len(obj.el) = 0 THEN <<SQUARE_BRACKET_OPEN, SQUARE_BRACKET_CLOSE>>
            ELSE LET content == [k \in 1..Len(obj.el) |->
                                   newIndent \o stringifyValue(obj.el[k], newIndent, indentString)]
                 IN <<SQUARE_BRACKET_OPEN, LF>> \o join(content, <<LF>>)
                      \o <<LF>> \o indent \o <<SQUARE_BRACKET_CLOSE>>
       ELSE IF Len(obj.kv) = 0 THEN <<CURLY_BRACKET_OPEN, CURLY_BRACKET_CLOSE>>
            ELSE LET defined == SelectSeq(obj.kv, LAMBDA en : en.v # Undefined)
                     content == [k \in 1..Len(defined) |->
                                   newIndent \o defined[k].k \o <<NAME_VALUE_SEPARATOR, SPACE>>
                                     \o stringifyValue(defined[k].v, newIndent, indentString)]
                 IN <<CURLY_BRACKET_OPEN, LF>> \o join(content, <<LF>>)
                      \o <<LF>> \o indent \o <<CURLY_BRACKET_CLOSE>>

\* The text APON.stringify returns for an object or an array.
stringify(obj, options) ==
    LET indentString == indentStringOf(options)
    IN IF isArray(obj) THEN stringifyObject(obj, <<>>, indentString)
       ELSE LET defined == SelectSeq(obj.kv, LAMBDA en : en.v # Undefined)
                lines == [k \in 1..Len(defined) |->
                            defined[k].k \o <<NAME_VALUE_SEPARATOR, SPACE>>
                              \o stringifyValue(defined[k].v, <<>>, indentString)]
            IN join(lines, <<LF>>)

\* A variant of the type check that lets only plain objects through.
stringifyRejectsArrays(obj) == ~typeofObject(obj) \/ obj = Null \/ isArray(obj)

\* typeof obj !== 'object' || obj === null
stringifyRejects(obj) == ~typeofObject(obj) \/ obj = Null

----------------------------------------------------------------------------
(* The state of one call of APON.stringify followed by APON.parse of the   *)
(* text it returned, or of one call of APON.parse on a given text.         *)

VARIABLES
    input,        \* the value given to APON.stringify (Undefined: none)
    options,      \* the options given to APON.stringify
    stringified,  \* "none", "returned" or "threw": how APON.stringify ended
    text,         \* the argument of APON.parse, a value
    lines,        \* text.split(/\r?\n/)
    i,            \* the line cursor, 0-based as in the code
    stack,        \* the active calls of parseObject, the innermost last
    block,        \* the text block being read: text, firstLine and its name
    pc,           \* "stringify", "parse", "body", "text", "trailing", "done"
    outcome,      \* "none", "returned" or "threw": how APON.parse ended
    result,       \* the value parseObject returned to APON.parse
    error         \* the Error APON.parse threw

vars == <<input, options, stringified, text, lines, i, stack, block, pc,
          outcome, result, error>>

\* parseObject(null): no terminator.
NULL_END == "null"

Frame(endChar, obj) == [endChar |-> endChar, obj |-> obj, name |-> <<>>]
NoBlock == [text |-> <<>>, firstLine |-> TRUE, name |-> <<>>]
NoError == [kind |-> "none", tok |-> "", hasLine |-> FALSE, line |-> 0]

\* 'Invalid APON format: Missing name-value separator ":" at line ' + i
MissingSeparatorError(n) ==
    [kind |-> "MissingSeparator", tok |-> NAME_VALUE_SEPARATOR, hasLine |-> TRUE, line |-> n]
\* A variant that reports the line 0-based.
UnexpectedClosingErrorZeroBased(tok, n) ==
    [kind |-> "UnexpectedClosing", tok |-> tok, hasLine |-> TRUE, line |-> n - 1]
\* 'Invalid APON format: Unexpected closing brace "' + line + '" at top level on line ' + i
UnexpectedClosingError(tok, n) ==
    [kind |-> "UnexpectedClosing", tok |-> tok, hasLine |-> TRUE, line |-> n]
\* 'Invalid APON format: Unclosed block, missing "' + endChar + '"'
UnclosedBlockError(endChar) ==
    [kind |-> "UnclosedBlock", tok |-> endChar, hasLine |-> FALSE, line |-> 0]
\* A variant that reports the cursor i instead of i + 1.
TrailingContentErrorZeroBased(tok, n) ==
    [kind |-> "TrailingContent", tok |-> tok, hasLine |-> TRUE, line |-> n - 1]
\* 'Invalid APON format: Unexpected content after closing brace "}" at line ' + (i + 1)
TrailingContentError(tok, n) ==
    [kind |-> "TrailingContent", tok |-> tok, hasLine |-> TRUE, line |-> n]

top == stack[Len(stack)]
curLine == trim(lines[i + 1])
newContainer(endChar) == IF endChar = SQUARE_BRACKET_CLOSE THEN Arr(<<>>) ELSE Map(<<>>)
closerOf(opener) ==
    IF opener = <<CURLY_BRACKET_OPEN>> THEN CURLY_BRACKET_CLOSE ELSE SQUARE_BRACKET_CLOSE

\* obj.push(v) or obj[name] = v on the container a frame is building.
store(frame, name, v) ==
    IF isArray(frame.obj)
    THEN [frame EXCEPT !.obj = Arr(Append(frame.obj.el, v))]
    ELSE [frame EXCEPT !.obj = Map(objSet(frame.obj.kv, name, v))]

setTop(frame) == [stack EXCEPT ![Len(stack)] = frame]

Throw(err) ==
    /\ outcome' = "threw"
    /\ error' = err
    /\ result' = Undefined
    /\ stack' = <<>>
    /\ block' = NoBlock
    /\ pc' = "done"

Return(v) ==
    /\ outcome' = "returned"
    /\ result' = v
    /\ stack' = <<>>
    /\ block' = NoBlock
    /\ pc' = "done"
    /\ UNCHANGED error

\* `return obj` of the innermost parseObject: to the caller's
\* obj.push(...) or obj[name] = ..., or to APON.parse.
ReturnObject(obj) ==
    IF Len(stack) > 1
    THEN /\ stack' = [k \in 1..(Len(stack) - 1) |->
                        IF k = Len(stack) - 1
                        THEN store(stack[k], stack[k].name, obj)
                        ELSE stack[k]]
         /\ UNCHANGED <<block, pc, outcome, result, error>>
    ELSE IF top.endChar = NULL_END
         THEN Return(obj)
         ELSE /\ result' = obj
              /\ stack' = <<>>
              /\ pc' = "trailing"
              /\ UNCHANGED <<block, outcome, error>>

firstSignificant(ls) ==
    IF \E j \in 1..Len(ls) : ~isBlankOrComment(trim(ls[j]))
    THEN (CHOOSE j \in 1..Len(ls) :
             /\ ~isBlankOrComment(trim(ls[j]))
             /\ \A k \in 1..(j - 1) : isBlankOrComment(trim(ls[k]))) - 1
    ELSE -1

----------------------------------------------------------------------------
(* APON.stringify.                                                         *)

StringifyThrow ==
    /\ pc = "stringify"
    /\ stringifyRejects(input)
    /\ stringified' = "threw"
    /\ pc' = "done"
    /\ UNCHANGED <<input, options, text, lines, i, stack, block, outcome, result, error>>

StringifyReturn ==
    /\ pc = "stringify"
    /\ ~stringifyRejects(input)
    /\ stringified' = "returned"
    /\ text' = Str(stringify(input, options))
    /\ pc' = "parse"
    /\ UNCHANGED <<input, options, lines, i, stack, block, outcome, result, error>>

----------------------------------------------------------------------------
(* APON.parse: the entry, up to the call of parseObject.                   *)

\* typeof text !== 'string' || !text.trim()
parseRejects(txt) == IF isString(txt) THEN trim(txt.s) = <<>> ELSE TRUE

\* Not a string, or nothing but white space: {}.
ParseEmpty ==
    /\ pc = "parse"
    /\ parseRejects(text)
    /\ Return(Map(<<>>))
    /\ UNCHANGED <<input, options, stringified, text, lines, i>>

\* No significant line, or the first one is {} or []: an empty container.
ParseEmptyContainer ==
    /\ pc = "parse"
    /\ ~parseRejects(text)
    /\ LET ls == splitLines(text.s)
           firstLineIndex == firstSignificant(ls)
           firstLine == IF firstLineIndex = -1 THEN <<>> ELSE trim(ls[firstLineIndex + 1])
       IN /\ IF firstLineIndex = -1 THEN TRUE
             ELSE firstLine \in {<<CURLY_BRACKET_OPEN, CURLY_BRACKET_CLOSE>>,
                                 <<SQUARE_BRACKET_OPEN, SQUARE_BRACKET_CLOSE>>}
          /\ lines' = ls
          /\ i' = 0
          /\ IF firstLineIndex = -1
             THEN IF trim(text.s) = <<SQUARE_BRACKET_OPEN, SQUARE_BRACKET_CLOSE>>
                  THEN Return(Arr(<<>>))
                  ELSE Return(Map(<<>>))
             ELSE IF firstLine = <<CURLY_BRACKET_OPEN, CURLY_BRACKET_CLOSE>>
                  THEN Return(Map(<<>>))
                  ELSE Return(Arr(<<>>))
    /\ UNCHANGED <<input, options, stringified, text>>

\* The first significant line is { or [: parseObject from the next line.
ParseWrapped ==
    /\ pc = "parse"
    /\ ~parseRejects(text)
    /\ LET ls == splitLines(text.s)
           firstLineIndex == firstSignificant(ls)
           firstLine == IF firstLineIndex = -1 THEN <<>> ELSE trim(ls[firstLineIndex + 1])
       IN /\ firstLine \in {<<CURLY_BRACKET_OPEN>>, <<SQUARE_BRACKET_OPEN>>}
          /\ lines' = ls
          /\ i' = firstLineIndex + 1
          /\ stack' = <<Frame(closerOf(firstLine), newContainer(closerOf(firstLine)))>>
    /\ pc' = "body"
    /\ UNCHANGED <<input, options, stringified, text, block, outcome, result, error>>

\* Anything else: parseObject(null) from the first line.
ParseUnwrapped ==
    /\ pc = "parse"
    /\ ~parseRejects(text)
    /\ LET ls == splitLines(text.s)
           firstLineIndex == firstSignificant(ls)
           firstLine == IF firstLineIndex = -1 THEN <<>> ELSE trim(ls[firstLineIndex + 1])
       IN /\ firstLineIndex # -1
          /\ firstLine \notin {<<CURLY_BRACKET_OPEN, CURLY_BRACKET_CLOSE>>,
                               <<SQUARE_BRACKET_OPEN, SQUARE_BRACKET_CLOSE>>,
                               <<CURLY_BRACKET_OPEN>>, <<SQUARE_BRACKET_OPEN>>}
          /\ lines' = ls
          /\ i' = 0
          /\ stack' = <<Frame(NULL_END, newContainer(NULL_END))>>
    /\ pc' = "body"
    /\ UNCHANGED <<input, options, stringified, text, block, outcome, result, error>>

----------------------------------------------------------------------------
(* parseObject: one action per way through an iteration of its loop.  Each *)
(* reads lines[i], trimmed, and advances the cursor first.                 *)

InBody == pc = "body" /\ i < Len(lines)

Fixed == <<input, options, stringified, text, lines>>

\* A blank line or a comment: continue.
SkipLine ==
    /\ InBody
    /\ isBlankOrComment(curLine)
    /\ i' = i + 1
    /\ UNCHANGED <<stack, block, pc, outcome, result, error>>
    /\ UNCHANGED Fixed

\* The terminator: return obj.
CloseBlock ==
    /\ InBody
    /\ ~isBlankOrComment(curLine)
    /\ curLine = <<top.endChar>>
    /\ i' = i + 1
    /\ ReturnObject(top.obj)
    /\ UNCHANGED Fixed

\* } or ] where no terminator is expected.
UnexpectedClosing ==
    /\ InBody
    /\ ~isBlankOrComment(curLine)
    /\ top.endChar = NULL_END
    /\ curLine \in {<<CURLY_BRACKET_CLOSE>>, <<SQUARE_BRACKET_CLOSE>>}
    /\ i' = i + 1
    /\ Throw(UnexpectedClosingError(curLine[1], i + 1))
    /\ UNCHANGED Fixed

\* The lines that reach the branch on Array.isArray(obj).
IsContent ==
    /\ InBody
    /\ ~isBlankOrComment(curLine)
    /\ curLine # <<top.endChar>>
    /\ ~(top.endChar = NULL_END
         /\ curLine \in {<<CURLY_BRACKET_CLOSE>>, <<SQUARE_BRACKET_CLOSE>>})

\* In an array, { or [: obj.push(parseObject(...)).
ElementOpen ==
    /\ IsContent
    /\ isArray(top.obj)
    /\ curLine \in {<<CURLY_BRACKET_OPEN>>, <<SQUARE_BRACKET_OPEN>>}
    /\ i' = i + 1
    /\ stack' = Append(stack, Frame(closerOf(curLine), newContainer(closerOf(curLine))))
    /\ UNCHANGED <<block, pc, outcome, result, error>>
    /\ UNCHANGED Fixed

\* In an array, any other line: obj.push(parseValue(line, null)).
ElementScalar ==
    /\ IsContent
    /\ isArray(top.obj)
    /\ curLine \notin {<<CURLY_BRACKET_OPEN>>, <<SQUARE_BRACKET_OPEN>>}
    /\ i' = i + 1
    /\ stack' = setTop(store(top, <<>>, parseValue(curLine, Null)))
    /\ UNCHANGED <<block, pc, outcome, result, error>>
    /\ UNCHANGED Fixed

\* In an object, a line without ':'.
MissingSeparator ==
    /\ IsContent
    /\ ~isArray(top.obj)
    /\ indexOf(curLine, NAME_VALUE_SEPARATOR) = -1
    /\ i' = i + 1
    /\ Throw(MissingSeparatorError(i + 1))
    /\ UNCHANGED Fixed

IsEntry ==
    /\ IsContent
    /\ ~isArray(top.obj)
    /\ indexOf(curLine, NAME_VALUE_SEPARATOR) # -1

\* name: { or name: [ : obj[name] = parseObject(...).
EntryOpen ==
    /\ IsEntry
    /\ entryValue(curLine) \in {<<CURLY_BRACKET_OPEN>>, <<SQUARE_BRACKET_OPEN>>}
    /\ i' = i + 1
    /\ LET closer == closerOf(entryValue(curLine))
       IN stack' = Append(setTop([top EXCEPT !.name = entryName(curLine).name]),
                          Frame(closer, newContainer(closer)))
    /\ UNCHANGED <<block, pc, outcome, result, error>>
    /\ UNCHANGED Fixed

\* name: ( ... : the text block loop starts on the next line.
EntryTextBlock ==
    /\ IsEntry
    /\ entryValue(curLine) \notin {<<CURLY_BRACKET_OPEN>>, <<SQUARE_BRACKET_OPEN>>}
    /\ startsWith(entryValue(curLine), <<ROUND_BRACKET_OPEN>>)
    /\ i' = i + 1
    /\ block' = [text |-> <<>>, firstLine |-> TRUE, name |-> entryName(curLine).name]
    /\ pc' = "text"
    /\ UNCHANGED <<stack, outcome, result, error>>
    /\ UNCHANGED Fixed

\* name: value : obj[name] = parseValue(value, typeHint).
EntryScalar ==
    /\ IsEntry
    /\ entryValue(curLine) \notin {<<CURLY_BRACKET_OPEN>>, <<SQUARE_BRACKET_OPEN>>}
    /\ ~startsWith(entryValue(curLine), <<ROUND_BRACKET_OPEN>>)
    /\ i' = i + 1
    /\ LET en == entryName(curLine)
       IN stack' = setTop(store(top, en.name, parseValue(entryValue(curLine), en.typeHint)))
    /\ UNCHANGED <<block, pc, outcome, result, error>>
    /\ UNCHANGED Fixed

\* The lines ran out in a parseObject that has a terminator.
UnclosedBlock ==
    /\ pc = "body"
    /\ i >= Len(lines)
    /\ top.endChar # NULL_END
    /\ Throw(UnclosedBlockError(top.endChar))
    /\ UNCHANGED i
    /\ UNCHANGED Fixed

\* The lines ran out in parseObject(null): return obj.
EndOfInput ==
    /\ pc = "body"
    /\ i >= Len(lines)
    /\ top.endChar = NULL_END
    /\ ReturnObject(top.obj)
    /\ UNCHANGED i
    /\ UNCHANGED Fixed

----------------------------------------------------------------------------
(* The text block loop, which reads the raw lines.                         *)

InText == pc = "text" /\ i < Len(lines)

endText == setTop(store(top, block.name, Str(block.text)))

\* A variant that breaks out of the loop without i++.
TextCloseNoAdvance ==
    /\ InText
    /\ trim(lines[i + 1]) = <<ROUND_BRACKET_CLOSE>>
    /\ i' = i
    /\ stack' = endText
    /\ block' = NoBlock
    /\ pc' = "body"
    /\ UNCHANGED <<outcome, result, error>>
    /\ UNCHANGED Fixed

\* A line that is ) once trimmed: i++, break, obj[name] = text.
TextClose ==
    /\ InText
    /\ trim(lines[i + 1]) = <<ROUND_BRACKET_CLOSE>>
    /\ i' = i + 1
    /\ stack' = endText
    /\ block' = NoBlock
    /\ pc' = "body"
    /\ UNCHANGED <<outcome, result, error>>
    /\ UNCHANGED Fixed

\* A line that starts with | once trimmed: what follows the first |.
TextLine ==
    /\ InText
    /\ trim(lines[i + 1]) # <<ROUND_BRACKET_CLOSE>>
    /\ startsWith(trim(lines[i + 1]), <<TEXT_LINE_START>>)
    /\ LET textLine == lines[i + 1]
           piece == substringFrom(textLine, indexOf(textLine, TEXT_LINE_START) + 1)
       IN block' = [block EXCEPT
                      !.text = IF block.firstLine THEN @ \o piece ELSE @ \o <<LF>> \o piece,
                      !.firstLine = FALSE]
    /\ i' = i + 1
    /\ UNCHANGED <<stack, pc, outcome, result, error>>
    /\ UNCHANGED Fixed

\* Any other line adds nothing.
TextSkip ==
    /\ InText
    /\ trim(lines[i + 1]) # <<ROUND_BRACKET_CLOSE>>
    /\ ~startsWith(trim(lines[i + 1]), <<TEXT_LINE_START>>)
    /\ i' = i + 1
    /\ UNCHANGED <<stack, block, pc, outcome, result, error>>
    /\ UNCHANGED Fixed

\* The lines ran out in the text block: obj[name] = text all the same.
TextEndOfInput ==
    /\ pc = "text"
    /\ i >= Len(lines)
    /\ stack' = endText
    /\ block' = NoBlock
    /\ pc' = "body"
    /\ UNCHANGED <<i, outcome, result, error>>
    /\ UNCHANGED Fixed

----------------------------------------------------------------------------
(* APON.parse after the parseObject of a root { or [ returned.             *)

InTrailing == pc = "trailing" /\ i < Len(lines)

\* The terminator of the first frame of this call, kept in the result's kind.
rootCloser == IF isArray(result) THEN SQUARE_BRACKET_CLOSE ELSE CURLY_BRACKET_CLOSE

TrailingSkip ==
    /\ InTrailing
    /\ isBlankOrComment(curLine)
    /\ i' = i + 1
    /\ UNCHANGED <<stack, block, pc, outcome, result, error>>
    /\ UNCHANGED Fixed

TrailingContent ==
    /\ InTrailing
    /\ ~isBlankOrComment(curLine)
    /\ Throw(TrailingContentError(rootCloser, i + 1))
    /\ UNCHANGED i
    /\ UNCHANGED Fixed

TrailingEnd ==
    /\ pc = "trailing"
    /\ i >= Len(lines)
    /\ Return(result)
    /\ UNCHANGED i
    /\ UNCHANGED Fixed

----------------------------------------------------------------------------

Stringify == StringifyThrow \/ StringifyReturn

ParseEntry == ParseEmpty \/ ParseEmptyContainer \/ ParseWrapped \/ ParseUnwrapped

ParseObject ==
    \/ SkipLine \/ CloseBlock \/ UnexpectedClosing
    \/ ElementOpen \/ ElementScalar
    \/ MissingSeparator \/ EntryOpen \/ EntryTextBlock \/ EntryScalar
    \/ UnclosedBlock \/ EndOfInput

TextBlock == TextClose \/ TextLine \/ TextSkip \/ TextEndOfInput

Trailing == TrailingSkip \/ TrailingContent \/ TrailingEnd

Next == Stringify \/ ParseEntry \/ ParseObject \/ TextBlock \/ Trailing

----------------------------------------------------------------------------
(* APON.parse as a function of its text: the value or the error of the     *)
(* call, and the lines its text block loops read.                          *)

\* The lines read by an inner loop or call, added to those of what follows.
withLines(r, ns) == [r EXCEPT !.tl = @ \cup ns]

\* The text block loop from lines[j]: the text, the cursor after the loop
\* and the lines it read.
RECURSIVE textBlock(_, _, _, _)
textBlock(ls, j, txt, firstLine) ==
    IF j >= Len(ls) THEN [text |-> txt, i |-> j, tl |-> {}]
    ELSE LET textLine == ls[j + 1]
             trimmedTextLine == trim(textLine)
             piece == substringFrom(textLine, indexOf(textLine, TEXT_LINE_START) + 1)
         IN IF trimmedTextLine = <<ROUND_BRACKET_CLOSE>>
            THEN [text |-> txt, i |-> j + 1, tl |-> {j + 1}]
            ELSE IF startsWith(trimmedTextLine, <<TEXT_LINE_START>>)
                 THEN withLines(textBlock(ls, j + 1,
                                          IF firstLine THEN txt \o piece
                                          ELSE txt \o <<LF>> \o piece,
                                          FALSE),
                                {j + 1})
            ELSE withLines(textBlock(ls, j + 1, txt, firstLine), {j + 1})

\* The loop of parseObject(endChar) from lines[j], obj being what it has
\* built so far.
RECURSIVE parseObject(_, _, _, _)
parseObject(ls, j, endChar, obj) ==
    IF j >= Len(ls)
    THEN IF endChar # NULL_END
         THEN [threw |-> TRUE, obj |-> Undefined, err |-> UnclosedBlockError(endChar),
               i |-> j, tl |-> {}]
         ELSE [threw |-> FALSE, obj |-> obj, err |-> NoError, i |-> j, tl |-> {}]
    ELSE LET line == trim(ls[j + 1])
             n == j + 1
             put(name, v) == store(Frame(endChar, obj), name, v).obj
             failed(e) == [threw |-> TRUE, obj |-> Undefined, err |-> e, i |-> n, tl |-> {}]
             nested(name, opener) ==
                 LET r == parseObject(ls, n, closerOf(opener), newContainer(closerOf(opener)))
                 IN IF r.threw THEN r
                    ELSE withLines(parseObject(ls, r.i, endChar, put(name, r.obj)), r.tl)
         IN IF isBlankOrComment(line) THEN parseObject(ls, n, endChar, obj)
            ELSE IF line = <<endChar>>
                 THEN [threw |-> FALSE, obj |-> obj, err |-> NoError, i |-> n, tl |-> {}]
            ELSE IF endChar = NULL_END
                    /\ line \in {<<CURLY_BRACKET_CLOSE>>, <<SQUARE_BRACKET_CLOSE>>}
                 THEN failed(UnexpectedClosingError(line[1], n))
            ELSE IF isArray(obj)
                 THEN IF line \in {<<CURLY_BRACKET_OPEN>>, <<SQUARE_BRACKET_OPEN>>}
                      THEN nested(<<>>, line)
                      ELSE parseObject(ls, n, endChar, put(<<>>, parseValue(line, Null)))
            ELSE IF indexOf(line, NAME_VALUE_SEPARATOR) = -1
                 THEN failed(MissingSeparatorError(n))
            ELSE LET en == entryName(line)
                     value == entryValue(line)
                 IN IF value \in {<<CURLY_BRACKET_OPEN>>, <<SQUARE_BRACKET_OPEN>>}
                    THEN nested(en.name, value)
                    ELSE IF startsWith(value, <<ROUND_BRACKET_OPEN>>)
                         THEN LET t == textBlock(ls, n, <<>>, TRUE)
                              IN withLines(parseObject(ls, t.i, endChar,
                                                       put(en.name, Str(t.text))),
                                           t.tl)
                    ELSE parseObject(ls, n, endChar,
                                     put(en.name, parseValue(value, en.typeHint)))

\* APON.parse(txt): how the call ends, with what, and the lines that its
\* text block loops read.
parse(txt) ==
    LET returned(v, ns) ==
            [outcome |-> "returned", result |-> v, error |-> NoError, tl |-> ns]
        thrown(e) ==
            [outcome |-> "threw", result |-> Undefined, error |-> e, tl |-> {}]
    IN IF parseRejects(txt) THEN returned(Map(<<>>), {})
       ELSE LET ls == splitLines(txt.s)
                firstLineIndex == firstSignificant(ls)
                firstLine == IF firstLineIndex = -1 THEN <<>>
                             ELSE trim(ls[firstLineIndex + 1])
            IN IF firstLineIndex = -1
               THEN IF trim(txt.s) = <<SQUARE_BRACKET_OPEN, SQUARE_BRACKET_CLOSE>>
                    THEN returned(Arr(<<>>), {})
                    ELSE returned(Map(<<>>), {})
               ELSE IF firstLine = <<CURLY_BRACKET_OPEN, CURLY_BRACKET_CLOSE>>
                    THEN returned(Map(<<>>), {})
               ELSE IF firstLine = <<SQUARE_BRACKET_OPEN, SQUARE_BRACKET_CLOSE>>
                    THEN returned(Arr(<<>>), {})
               ELSE IF firstLine \in {<<CURLY_BRACKET_OPEN>>, <<SQUARE_BRACKET_OPEN>>}
                    THEN LET closer == closerOf(firstLine)
                             r == parseObject(ls, firstLineIndex + 1, closer,
                                              newContainer(closer))
                             rest == {k \in (r.i + 1)..Len(ls) :
                                         ~isBlankOrComment(trim(ls[k]))}
                         IN IF r.threw THEN thrown(r.err)
                            ELSE IF rest # {}
                                 THEN thrown(TrailingContentError(
                                          closer, CHOOSE k \in rest : \A m \in rest : k <= m))
                            ELSE returned(r.obj, r.tl)
               ELSE LET r == parseObject(ls, 0, NULL_END, newContainer(NULL_END))
                    IN IF r.threw THEN thrown(r.err) ELSE returned(r.obj, r.tl)

----------------------------------------------------------------------------
(* The calls the model makes: the values given to APON.stringify and the   *)
(* texts given to APON.parse.                                              *)

MaxStrLen == 2
MaxDepth == 2
MaxWidth == 2
MaxLines == 3

\* Every string of at most MaxStrLen of these characters is a leaf.
Alphabet == {"a", "n", "1", SPACE, LF, ESCAPE_CHAR, DOUBLE_QUOTE_CHAR,
             NAME_VALUE_SEPARATOR, COMMENT_LINE_START, CURLY_BRACKET_OPEN}

ShortStrings == UNION {[1..n -> Alphabet] : n \in 0..MaxStrLen}

SpecialStrings ==
    {<<"t", "r", "u", "e">>, <<"f", "a", "l", "s", "e">>, <<"n", "u", "l", "l">>,
     <<"T", "r", "u", "e">>, <<"1", "2", "3">>, <<"-", "1">>,
     <<"1", ".", "5">>, <<"0", "0", "7">>, <<"(", "a">>,
     <<"a", "(">>, <<"'", "a", "'">>, <<"[">>,
     <<"]">>, <<"}">>, <<"|", "a">>,
     <<")">>, <<"a", SPACE, "b">>, <<"a", TAB, "b">>,
     <<ESCAPE_CHAR, "t">>, <<"a", LF, LF, "b">>, <<SPACE, "a", LF, SPACE, "b", SPACE>>,
     <<"x", ESCAPE_CHAR, "n", "y">>, <<"u", "n", "d", "e", "f", "i", "n", "e", "d">>,
     <<NAME_VALUE_SEPARATOR, ESCAPE_CHAR, "n">>, <<"a", COMMENT_LINE_START, ESCAPE_CHAR, "t">>}

Strings == ShortStrings \cup SpecialStrings

Numbers == {IntNum(0), IntNum(30), IntNum(-2), Num(15, 1)}

Leaves ==
    {Null, Bool(TRUE), Bool(FALSE), Undefined, Map(<<>>), Arr(<<>>)}
        \cup Numbers \cup {Str(s) : s \in Strings}

\* Property names, as many as a container is wide; the second is an
\* integer index.
keyAt(k) == IF k = 1 THEN <<"k">> ELSE IF k = 2 THEN <<"1">> ELSE <<"k", digitChar(k)>>

\* The object built by assigning vs[1], vs[2], ... to keyAt(1), keyAt(2), ...
RECURSIVE assignAll(_, _)
assignAll(vs, n) ==
    IF n = 0 THEN <<>> ELSE objSet(assignAll(vs, n - 1), keyAt(n), vs[n])

objectOf(vs) == Map(assignAll(vs, Len(vs)))

\* A leaf under a chain of one-element containers.
RECURSIVE wrap(_, _)
wrap(kinds, leaf) ==
    IF kinds = <<>> THEN leaf
    ELSE IF Head(kinds) = "map" THEN objectOf(<<wrap(Tail(kinds), leaf)>>)
    ELSE Arr(<<wrap(Tail(kinds), leaf)>>)

Chains == UNION {[1..d -> {"map", "seq"}] : d \in 1..MaxDepth}

Nested == {wrap(c, l) : c \in Chains, l \in Leaves}

\* Containers of several children.
Children ==
    {IntNum(1), Str(<<"a">>), Str(<<"a", LF, "b">>), Undefined,
     objectOf(<<Bool(TRUE)>>), Arr(<<Str(<<"a">>), Null>>)}

Wide ==
    UNION {{objectOf(vs) : vs \in [1..w -> Children]} \cup {Arr(vs) : vs \in [1..w -> Children]}
           : w \in 2..MaxWidth}

OptionsSet == {NoOptions, IntNum(1), IndentOption(Str(<<TAB>>)), IndentOption(IntNum(3))}

RootScalars == {Null, Undefined, Bool(TRUE), IntNum(123), Str(<<"a", SPACE, "s">>)}

\* The lines of the texts given to APON.parse.
LineVocabulary ==
    {<<"{">>, <<SPACE, SPACE, "}">>, <<"[">>,
     <<"]">>, <<"a", ":", SPACE, "1">>, <<SPACE, SPACE, "b", ":", SPACE, "{">>,
     <<"c", ":", SPACE, "[">>, <<"t", ":", SPACE, "(">>, <<SPACE, SPACE, "|", "x">>,
     <<")">>, <<>>, <<"#", SPACE, "c">>,
     <<"x">>}

Documents == UNION {[1..n -> LineVocabulary] : n \in 0..MaxLines}

\* name(hint): token
HintNames == {<<"a", "g", "e">>, <<"a", "g", "e", SPACE>>}

Hints ==
    {<<"s", "t", "r", "i", "n", "g">>, <<"n", "u", "m", "b", "e", "r">>, <<"i", "n", "t">>,
     <<"l", "o", "n", "g">>, <<"f", "l", "o", "a", "t">>, <<"d", "o", "u", "b", "l", "e">>,
     <<"b", "o", "o", "l", "e", "a", "n">>, <<"I", "N", "T">>, <<"S", "t", "r", "i", "n", "g">>,
     <<"B", "o", "o", "l", "e", "a", "n">>, <<"d", "a", "t", "e">>, <<>>}

Tokens ==
    {<<"n", "u", "l", "l">>, <<"t", "r", "u", "e">>, <<"T", "R", "U", "E">>,
     <<"f", "a", "l", "s", "e">>, <<"3", "0">>, <<"1", ".", "5">>,
     <<"-", "2">>, <<"a", "b", "c">>, <<>>,
     <<DOUBLE_QUOTE_CHAR, "3", "0", DOUBLE_QUOTE_CHAR>>, <<"'", "t", "r", "u", "e", "'">>, <<DOUBLE_QUOTE_CHAR, "a", ESCAPE_CHAR, "n", "b", DOUBLE_QUOTE_CHAR>>,
     <<DOUBLE_QUOTE_CHAR, "T", "r", "u", "e", DOUBLE_QUOTE_CHAR>>, <<"3", SPACE, "0">>}

hintLine(n, h, tk) ==
    n \o <<ROUND_BRACKET_OPEN>> \o h \o <<ROUND_BRACKET_CLOSE, NAME_VALUE_SEPARATOR, SPACE>> \o tk

HintLines ==
    {hintLine(n, h, tk) : n \in HintNames, h \in Hints, tk \in Tokens}
    \cup {<<"a", "g", "e", NAME_VALUE_SEPARATOR, SPACE>> \o tk : tk \in Tokens}

\* Not strings, white space only, texts whose first significant line is {}
\* or [], a text with CR LF line ends, and a root array followed by a blank
\* line, a comment and one more entry.
OtherTexts ==
    {Null, IntNum(5), Str(<<SPACE, LF, TAB>>),
     Str(<<CURLY_BRACKET_OPEN, CURLY_BRACKET_CLOSE>>),
     Str(<<SQUARE_BRACKET_OPEN, SQUARE_BRACKET_CLOSE>>),
     Str(<<COMMENT_LINE_START, "c", LF, SPACE, SQUARE_BRACKET_OPEN, SQUARE_BRACKET_CLOSE,
           SPACE, LF, "x">>),
     Str(<<LF, CURLY_BRACKET_OPEN, CURLY_BRACKET_CLOSE, LF, SQUARE_BRACKET_CLOSE>>),
     Str(<<"a", NAME_VALUE_SEPARATOR, "1", CR, LF, "b", NAME_VALUE_SEPARATOR, "2">>),
     Str(join(<<<<SQUARE_BRACKET_OPEN>>, <<SPACE, "1">>, <<SQUARE_BRACKET_CLOSE>>, <<>>,
                <<COMMENT_LINE_START, "c">>, <<"x", NAME_VALUE_SEPARATOR, SPACE, "1">>>>,
              <<LF>>))}

Texts ==
    {Str(join(d, <<LF>>)) : d \in Documents}
        \cup {Str(l) : l \in HintLines}
        \cup OtherTexts

InitStringify ==
    /\ \/ input \in Nested \cup RootScalars /\ options = NoOptions
       \/ input \in Wide /\ options \in OptionsSet
    /\ text = Undefined
    /\ pc = "stringify"

InitParse ==
    /\ input = Undefined
    /\ options = NoOptions
    /\ text \in Texts
    /\ pc = "parse"

Init ==
    /\ InitStringify \/ InitParse
    /\ stringified = "none"
    /\ lines = <<>>
    /\ i = 0
    /\ stack = <<>>
    /\ block = NoBlock
    /\ outcome = "none"
    /\ result = Undefined
    /\ error = NoError

Spec == Init /\ [][Next]_vars

----------------------------------------------------------------------------
(* Properties.                                                             *)

Done == pc = "done"

\* The call was stringify(input, options) and then parse of its text.
RoundTripDone == Done /\ stringified = "returned"

RECURSIVE hasUndefined(_)
hasUndefined(v) ==
    IF v.t = "undefined" THEN TRUE
    ELSE IF v.t = "map" THEN \E k \in 1..Len(v.kv) : hasUndefined(v.kv[k].v)
    ELSE IF v.t = "seq" THEN \E k \in 1..Len(v.el) : hasUndefined(v.el[k])
    ELSE FALSE

RECURSIVE onlyIntegers(_)
onlyIntegers(v) ==
    IF v.t = "num" THEN v.e = 0
    ELSE IF v.t = "map" THEN \A k \in 1..Len(v.kv) : onlyIntegers(v.kv[k].v)
    ELSE IF v.t = "seq" THEN \A k \in 1..Len(v.el) : onlyIntegers(v.el[k])
    ELSE TRUE

isContainer(v) == v.t \in {"map", "seq"}

\* A value tree parse can return: a container of Null, Boolean, integer
\* Number, String, Mapping and Sequence.
Producible(v) == isContainer(v) /\ ~hasUndefined(v) /\ onlyIntegers(v)

\* C1: for every value tree v with a Mapping or Sequence root that parse
\* can produce, parse(stringify(v)) is structurally equal to v.
C1_RoundTrip ==
    (RoundTripDone /\ Producible(input)) => (outcome = "returned" /\ result = input)

----------------------------------------------------------------------------

\* The indent string the options ask for: that many spaces, the indent
\* property when it is a string, two spaces otherwise.
C2_Indent ==
    IF options = IntNum(1) THEN <<SPACE>>
    ELSE IF options = IndentOption(Str(<<TAB>>)) THEN <<TAB>>
    ELSE <<SPACE, SPACE>>

\* The number of copies of ind a line starts with, and what follows them.
RECURSIVE leadCount(_, _)
leadCount(l, ind) ==
    IF startsWith(l, ind) THEN 1 + leadCount(SubSeq(l, Len(ind) + 1, Len(l)), ind) ELSE 0

afterLead(l, ind) == SubSeq(l, leadCount(l, ind) * Len(ind) + 1, Len(l))

\* The closing token of the construct a line opens, "" when it opens none.
openedBy(b) ==
    IF b = <<CURLY_BRACKET_OPEN>> \/ endsWith(b, <<NAME_VALUE_SEPARATOR, SPACE, CURLY_BRACKET_OPEN>>)
    THEN CURLY_BRACKET_CLOSE
    ELSE IF b = <<SQUARE_BRACKET_OPEN>>
            \/ endsWith(b, <<NAME_VALUE_SEPARATOR, SPACE, SQUARE_BRACKET_OPEN>>)
    THEN SQUARE_BRACKET_CLOSE
    ELSE IF b = <<ROUND_BRACKET_OPEN>>
            \/ endsWith(b, <<NAME_VALUE_SEPARATOR, SPACE, ROUND_BRACKET_OPEN>>)
    THEN ROUND_BRACKET_CLOSE
    ELSE ""

\* Lines ls[k..] are laid out by depth: with `open` the closing tokens of
\* the constructs open at line k, a closing token is prefixed by one copy
\* of the indent string per construct that stays open, and any other line
\* by one copy per open construct.
RECURSIVE wellIndented(_, _, _, _)
wellIndented(ls, k, open, ind) ==
    IF k > Len(ls) THEN open = <<>>
    ELSE LET n == leadCount(ls[k], ind)
             b == afterLead(ls[k], ind)
             d == Len(open)
         IN IF open # <<>> /\ b = <<open[d]>>
            THEN n = d - 1 /\ wellIndented(ls, k + 1, SubSeq(open, 1, d - 1), ind)
            ELSE IF open # <<>> /\ open[d] = ROUND_BRACKET_CLOSE
            THEN /\ n = d
                 /\ startsWith(b, <<TEXT_LINE_START>>)
                 /\ wellIndented(ls, k + 1, open, ind)
            ELSE /\ n = d
                 /\ b # <<>>
                 /\ b[1] \notin WhiteSpace
                 /\ wellIndented(ls, k + 1,
                                 IF openedBy(b) = "" THEN open ELSE Append(open, openedBy(b)),
                                 ind)

\* The lines among ls[k..] that start a child of a construct at depth n:
\* those read with n constructs open that do not close the innermost one.
RECURSIVE startsAt(_, _, _, _, _)
startsAt(ls, k, open, n, ind) ==
    IF k > Len(ls) THEN <<>>
    ELSE LET b == afterLead(ls[k], ind)
             d == Len(open)
         IN IF open # <<>> /\ b = <<open[d]>>
            THEN startsAt(ls, k + 1, SubSeq(open, 1, d - 1), n, ind)
            ELSE IF open # <<>> /\ open[d] = ROUND_BRACKET_CLOSE
            THEN startsAt(ls, k + 1, open, n, ind)
            ELSE (IF d = n THEN <<ls[k]>> ELSE <<>>)
                   \o startsAt(ls, k + 1,
                               IF openedBy(b) = "" THEN open ELSE Append(open, openedBy(b)),
                               n, ind)

definedEntries(v) == SelectSeq(v.kv, LAMBDA en : en.v # Undefined)

C2_RootMapping(v, txt, ind) ==
    LET ls == splitOn(txt, LF)
        des == definedEntries(v)
        tops == startsAt(ls, 1, <<>>, 0, ind)
    IN IF des = <<>> THEN txt = <<>>
       ELSE /\ wellIndented(ls, 1, <<>>, ind)
            /\ Len(tops) = Len(des)
            /\ \A k \in 1..Len(des) :
                 startsWith(tops[k], des[k].k \o <<NAME_VALUE_SEPARATOR, SPACE>>)

C2_RootSequence(v, txt, ind) ==
    LET ls == splitOn(txt, LF)
    IN /\ startsWith(txt, <<SQUARE_BRACKET_OPEN>>)
       /\ endsWith(txt, <<SQUARE_BRACKET_CLOSE>>)
       /\ v.el # <<>> =>
            /\ wellIndented(ls, 1, <<>>, ind)
            /\ Len(startsAt(ls, 1, <<>>, 1, ind)) = Len(v.el)

\* C2: stringify renders a root Mapping without braces as one name: value
\* line per entry that has a defined value, in entry order, joined by
\* single newlines; a root Sequence is wrapped in [ and ]; every non-empty
\* nested container at depth d is its opening token, one line per element
\* prefixed by d + 1 copies of the indent string, and its closing token
\* prefixed by d copies.
C2_Layout ==
    stringified = "returned" =>
        IF isArray(input)
        THEN C2_RootSequence(input, text.s, C2_Indent)
        ELSE C2_RootMapping(input, text.s, C2_Indent)

----------------------------------------------------------------------------

\* The call was parse(text) on a string with a significant line.
ParseStarted == isString(text) /\ lines # <<>>

firstLineOf(ls) ==
    IF firstSignificant(ls) = -1 THEN <<>> ELSE trim(ls[firstSignificant(ls) + 1])

C3_Closer == IF firstLineOf(lines) = <<CURLY_BRACKET_OPEN>>
             THEN CURLY_BRACKET_CLOSE ELSE SQUARE_BRACKET_CLOSE

\* One step of a parse whose first significant line is { or [: the root
\* body is left on the line that is its closing token, and from there a
\* blank or comment line is passed over, any other line fails the parse
\* with its 1-based number, and the end of the lines returns the container.
C3_Step ==
    /\ (pc # "trailing" /\ pc' = "trailing") =>
          /\ firstLineOf(lines) \in {<<CURLY_BRACKET_OPEN>>, <<SQUARE_BRACKET_OPEN>>}
          /\ i' \in 1..Len(lines)
          /\ trim(lines[i']) = <<C3_Closer>>
          /\ result'.t = (IF C3_Closer = CURLY_BRACKET_CLOSE THEN "map" ELSE "seq")
          /\ outcome' = "none"
    /\ pc = "trailing" =>
          IF i < Len(lines) /\ ~isBlankOrComment(trim(lines[i + 1]))
          THEN /\ outcome' = "threw"
               /\ error'.kind = "TrailingContent"
               /\ error'.hasLine
               /\ error'.line = i + 1
               /\ error'.tok = C3_Closer
               /\ result' = Undefined
          ELSE IF i < Len(lines)
          THEN pc' = "trailing" /\ i' = i + 1 /\ result' = result /\ outcome' = "none"
          ELSE outcome' = "returned" /\ result' = result /\ isContainer(result)

\* C3: when the first significant line is exactly { or [ and the body is
\* closed by the matching line, parse fails with a trailing-content error
\* that reports the 1-based number of the first line after the closing
\* line that is neither blank nor a comment, returning no value; without
\* such a line it returns the parsed container.
C3_TrailingContent == [][C3_Step]_vars

\* A blank line was passed over after the closing line, and the next line
\* failed the parse.
C3_Witness ==
    /\ Done
    /\ outcome = "threw"
    /\ error.kind = "TrailingContent"
    /\ error.line = 6
    /\ isBlankOrComment(trim(lines[4]))
    /\ isBlankOrComment(trim(lines[5]))

----------------------------------------------------------------------------

ClosingLines == {<<CURLY_BRACKET_CLOSE>>, <<SQUARE_BRACKET_CLOSE>>}

\* A mapping entry line that opens neither a container nor a text block.
isScalarEntry(l) ==
    /\ ~isBlankOrComment(l)
    /\ includes(l, NAME_VALUE_SEPARATOR)
    /\ entryValue(l) \notin {<<CURLY_BRACKET_OPEN>>, <<SQUARE_BRACKET_OPEN>>}
    /\ ~startsWith(entryValue(l), <<ROUND_BRACKET_OPEN>>)

\* A step at the top level of an unterminated mapping that reads } or ].
C4_Step ==
    (/\ pc = "body"
     /\ i < Len(lines)
     /\ Len(stack) = 1
     /\ stack[1].endChar = NULL_END
     /\ trim(lines[i + 1]) \in ClosingLines)
    => /\ outcome' = "threw"
       /\ error'.kind = "UnexpectedClosing"
       /\ error'.hasLine
       /\ error'.line = i + 1
       /\ <<error'.tok>> = trim(lines[i + 1])
       /\ result' = Undefined

\* A text whose lines before line k are blank, comments or scalar entries,
\* and whose line k is } or ]: the parse failed on line k.
C4_Flat ==
    (Done /\ ParseStarted) =>
        \A k \in 1..Len(lines) :
            (/\ trim(lines[k]) \in ClosingLines
             /\ \A j \in 1..(k - 1) :
                   isBlankOrComment(trim(lines[j])) \/ isScalarEntry(trim(lines[j])))
            => /\ outcome = "threw"
               /\ error.kind = "UnexpectedClosing"
               /\ error.line = k

\* C4: in a document parsed as an unterminated top-level mapping, parse
\* fails on the first line at the top level that is exactly } or ], and
\* the error reports the 1-based number of that line.
C4_TopLevelClosing == []C4_Flat /\ [][C4_Step]_vars

\* The closing line followed a nested mapping that was closed on line 2.
C4_Witness ==
    /\ Done
    /\ outcome = "threw"
    /\ error.kind = "UnexpectedClosing"
    /\ error.line = 3
    /\ entryValue(trim(lines[1])) = <<CURLY_BRACKET_OPEN>>
    /\ trim(lines[2]) = <<CURLY_BRACKET_CLOSE>>

----------------------------------------------------------------------------

----------------------------------------------------------------------------

C6_Special == {NAME_VALUE_SEPARATOR, CURLY_BRACKET_OPEN, CURLY_BRACKET_CLOSE, COMMENT_LINE_START}

\* true, false, null, a numeric literal, or a string with a colon, a
\* brace or a hash; no newline.
C6_Ambiguous(s) ==
    /\ ~includes(s, LF)
    /\ \/ s \in {Lit("true"), Lit("false"), Lit("null")}
       \/ isDecimalLiteral(s)
       \/ \E k \in 1..Len(s) : s[k] \in C6_Special

\* The input is {k: s} for a string s.
isSingleString(v) == v.t = "map" /\ Len(v.kv) = 1 /\ v.kv[1].v.t = "str"

\* C6: for every String s without a newline that equals true, false or
\* null, is a numeric literal or contains a colon, a brace or a hash,
\* stringify renders s wrapped in double quotes and parse(stringify({k: s}))
\* returns a Mapping whose k is the String s.
C6_QuotedRoundTrip ==
    (stringified = "returned" /\ isSingleString(input) /\ C6_Ambiguous(input.kv[1].v.s)) =>
        LET rendered == SubSeq(text.s, Len(input.kv[1].k) + 3, Len(text.s))
        IN /\ Len(rendered) >= 2
           /\ startsWith(rendered, <<DOUBLE_QUOTE_CHAR>>)
           /\ endsWith(rendered, <<DOUBLE_QUOTE_CHAR>>)
           /\ Done => outcome = "returned" /\ result = input

----------------------------------------------------------------------------

RECURSIVE hasMultiLine(_)
hasMultiLine(v) ==
    IF v.t = "str" THEN includes(v.s, LF)
    ELSE IF v.t = "map" THEN \E k \in 1..Len(v.kv) : hasMultiLine(v.kv[k].v)
    ELSE IF v.t = "seq" THEN \E k \in 1..Len(v.el) : hasMultiLine(v.el[k])
    ELSE FALSE

\* Every multi-line string of v is in r at the same position.
RECURSIVE multiLineKept(_, _)
multiLineKept(v, r) ==
    IF v.t = "str" THEN r = v
    ELSE IF v.t = "map"
    THEN \A k \in 1..Len(v.kv) :
            hasMultiLine(v.kv[k].v) =>
               /\ r.t = "map"
               /\ hasKey(r.kv, v.kv[k].k)
               /\ multiLineKept(v.kv[k].v, objGet(r.kv, v.kv[k].k))
    ELSE \A k \in 1..Len(v.el) :
            hasMultiLine(v.el[k]) =>
               /\ r.t = "seq"
               /\ k <= Len(r.el)
               /\ multiLineKept(v.el[k], r.el[k])

isInfix(p, s) == \E k \in 0..(Len(s) - Len(p)) : SubSeq(s, k + 1, k + Len(p)) = p

\* C7: a String with a newline, wherever it occurs in a value tree v (as a
\* mapping entry's value or as a sequence element), is rendered as a text
\* block, and parse(stringify(v)) has exactly that String at the same
\* position.
C7_MultiLineRoundTrip ==
    (stringified = "returned" /\ hasMultiLine(input)) =>
        /\ isInfix(<<ROUND_BRACKET_OPEN, LF>>, text.s)
        /\ Done => outcome = "returned" /\ multiLineKept(input, result)

----------------------------------------------------------------------------

\* A step taken when the lines have run out.  Inside a container that has
\* a terminator the parse fails with the unclosed-block error; inside a
\* text block it fails with it at once, or goes back to a container that
\* has a terminator, whose own step this is next.
C8_Step ==
    /\ (pc = "body" /\ i >= Len(lines) /\ stack[Len(stack)].endChar # NULL_END) =>
          /\ outcome' = "threw"
          /\ error'.kind = "UnclosedBlock"
          /\ error'.tok = stack[Len(stack)].endChar
          /\ result' = Undefined
    /\ (pc = "text" /\ i >= Len(lines)) =>
          \/ outcome' = "threw" /\ error'.kind = "UnclosedBlock" /\ result' = Undefined
          \/ pc' = "body" /\ i' >= Len(lines) /\ stack'[Len(stack')].endChar # NULL_END

\* C8: parse fails with an unclosed-block error, returning no value,
\* whenever the input ends before the terminator of an opened construct is
\* found: } for a mapping, ] for a sequence, ) for a text block.
C8_UnclosedBlock == [][C8_Step]_vars

----------------------------------------------------------------------------

\* C9: every error parse raises carries the 1-based number of the input
\* line at which the violation was detected.
C9_ErrorLine ==
    outcome = "threw" =>
        /\ error.hasLine
        /\ error.line \in 1..Len(lines)
        /\ error.kind = "MissingSeparator" =>
              ~includes(trim(lines[error.line]), NAME_VALUE_SEPARATOR)
        /\ error.kind = "UnexpectedClosing" => trim(lines[error.line]) \in ClosingLines
        /\ error.kind = "TrailingContent" => ~isBlankOrComment(trim(lines[error.line]))

----------------------------------------------------------------------------

C10_StringHint == Lit("string")
C10_NumberHints == {Lit("number"), Lit("int"), Lit("long"), Lit("float"), Lit("double")}
C10_BooleanHint == Lit("boolean")
C10_Recognized == {C10_StringHint, C10_BooleanHint} \cup C10_NumberHints

\* The token without its quotes and escapes, when it is quoted.
C10_Unquoted(tk) ==
    IF Len(tk) >= 2 /\ tk[1] = tk[Len(tk)] /\ tk[1] \in {DOUBLE_QUOTE_CHAR, SINGLE_QUOTE_CHAR}
    THEN unescapeString(SubSeq(tk, 2, Len(tk) - 1))
    ELSE tk

\* The hint cast table.
C10_Cast(h, tk) ==
    LET u == C10_Unquoted(tk)
    IN IF h = C10_StringHint THEN Str(u)
       ELSE IF h = C10_BooleanHint THEN Bool(toLowerCase(u) = Lit("true"))
       ELSE IF isDecimalLiteral(u) THEN decimalValue(u)
       ELSE Str(u)

\* C10: for a scalar entry name(hint): token with a recognized hint, in
\* any case: string yields the String token; number, int, long, float and
\* double yield the Number of a numeric token and the token itself
\* otherwise; boolean yields true exactly when the lower-cased token is
\* true; a quoted token is unquoted and unescaped before the cast; the
\* hint suffix is removed from the entry's name.
C10_TypeHints ==
    \A n \in HintNames, h \in Hints, tk \in Tokens :
        (Done /\ text = Str(hintLine(n, h, tk)) /\ toLowerCase(h) \in C10_Recognized) =>
            /\ outcome = "returned"
            /\ result = Map(<<Entry(n, C10_Cast(toLowerCase(h), tk))>>)

\* age(INT): "30" gave {age: 30}.
C10_Witness ==
    /\ Done
    /\ text = Str(hintLine(<<"a", "g", "e">>, <<"I", "N", "T">>,
                           <<DOUBLE_QUOTE_CHAR, "3", "0", DOUBLE_QUOTE_CHAR>>))
    /\ result = Map(<<Entry(<<"a", "g", "e">>, IntNum(30))>>)

----------------------------------------------------------------------------

\* The entry line name: token, without a hint.
C11_Plain(n, tk) == n \o <<NAME_VALUE_SEPARATOR, SPACE>> \o tk

\* The Mapping of one scalar entry line, as parseObject(null) builds it.
C11_ParseOf(l) ==
    Map(<<Entry(entryName(l).name, parseValue(entryValue(l), entryName(l).typeHint))>>)

\* C11: an unrecognized type hint has no effect: for every name, every hint
\* outside string, number, int, long, float, double, boolean and every
\* scalar token, parse of name(hint): token returns the Mapping that parse
\* of name: token returns (names written without white space around them).
C11_UnrecognizedHint ==
    \A n \in {m \in HintNames : trim(m) = m}, h \in Hints, tk \in Tokens :
        Done =>
            /\ text = Str(C11_Plain(n, tk)) =>
                  (outcome = "returned" /\ result = C11_ParseOf(C11_Plain(n, tk)))
            /\ (text = Str(hintLine(n, h, tk)) /\ toLowerCase(h) \notin C10_Recognized) =>
                  (outcome = "returned" /\ result = C11_ParseOf(C11_Plain(n, tk)))

----------------------------------------------------------------------------

\* A line that is neither blank nor a comment once trimmed.
C13_Significant(l) == trim(l) # <<>> /\ Head(trim(l)) # "#"

\* The first significant line of a text, trimmed; <<>> when it has none.
C13_FirstLine(txt) ==
    LET ls == splitLines(txt)
        sig == {j \in 1..Len(ls) : C13_Significant(ls[j])}
    IN IF sig = {} THEN <<>>
       ELSE trim(ls[CHOOSE j \in sig : \A k \in sig : j <= k])

\* C13: parse returns an empty Mapping for every input without a
\* significant line (a non-string, the empty string, white space only, only
\* blank and comment lines), an empty Mapping when the first significant
\* line is exactly {} and an empty Sequence when it is exactly [].
C13_EmptyInputs ==
    (Done /\ stringified # "threw") =>
        IF ~isString(text)
        THEN outcome = "returned" /\ result = Map(<<>>)
        ELSE /\ C13_FirstLine(text.s) = <<>> =>
                   (outcome = "returned" /\ result = Map(<<>>))
             /\ C13_FirstLine(text.s) = <<"{", "}">> =>
                   (outcome = "returned" /\ result = Map(<<>>))
             /\ C13_FirstLine(text.s) = <<"[", "]">> =>
                   (outcome = "returned" /\ result = Arr(<<>>))

\* A comment, then [] between spaces, then one more line: [].
C13_Witness ==
    /\ Done
    /\ text = Str(<<"#", "c", LF, SPACE, "[", "]", SPACE, LF, "x">>)
    /\ outcome = "returned"
    /\ result = Arr(<<>>)

----------------------------------------------------------------------------

\* A Sequence somewhere in v holds the String } as an element.  In a text
\* without quotes such an element is a line } read directly inside a
\* sequence body.
RECURSIVE C14_HoldsCloser(_)
C14_HoldsCloser(v) ==
    IF v.t = "seq"
    THEN \E k \in 1..Len(v.el) :
            v.el[k] = Str(<<CURLY_BRACKET_CLOSE>>) \/ C14_HoldsCloser(v.el[k])
    ELSE IF v.t = "map" THEN \E k \in 1..Len(v.kv) : C14_HoldsCloser(v.kv[k].v)
    ELSE FALSE

C14_NoQuotes ==
    /\ stringified = "none"
    /\ isString(text)
    /\ ~includes(text.s, DOUBLE_QUOTE_CHAR)
    /\ ~includes(text.s, SINGLE_QUOTE_CHAR)

\* No parse that returns a value has read a line } in a sequence body.
C14_Sequence == (outcome = "returned" /\ C14_NoQuotes) => ~C14_HoldsCloser(result)

\* The step that reads a line ] directly inside a mapping body throws.
C14_MappingStep ==
    (/\ pc = "body"
     /\ i < Len(lines)
     /\ top.endChar = CURLY_BRACKET_CLOSE
     /\ curLine = <<SQUARE_BRACKET_CLOSE>>) => (outcome' = "threw" /\ result' = Undefined)

\* C14: a closing delimiter that does not match the container being parsed
\* aborts the parse: parse fails, returning no value, whenever a line }
\* appears directly inside a sequence body or a line ] appears directly
\* inside a mapping body.
C14_MismatchedClosing == []C14_Sequence /\ [][C14_MappingStep]_vars

----------------------------------------------------------------------------

\* A String without a newline that needsQuotes lets through.
C15_Bare(v) == v.t = "str" /\ ~includes(v.s, LF) /\ ~needsQuotes(v.s)

\* stringify was given {k: s} or [s], s bare, with the default indent.
C15_AsValue == input.t = "map" /\ Len(input.kv) = 1 /\ C15_Bare(input.kv[1].v)
C15_AsElement == input.t = "seq" /\ Len(input.el) = 1 /\ C15_Bare(input.el[1])

\* C15: needsQuotes and the scalar grammar are in lockstep: for every
\* String s without a newline for which needsQuotes(s) is false, stringify
\* emits s bare and parse reads the bare token back as the String s, both
\* as a mapping entry's value and as a sequence element.
C15_Lockstep ==
    (stringified = "returned" /\ options = NoOptions) =>
        /\ C15_AsValue =>
              /\ text = Str(input.kv[1].k \o <<NAME_VALUE_SEPARATOR, SPACE>> \o input.kv[1].v.s)
              /\ Done => (outcome = "returned" /\ result = input)
        /\ C15_AsElement =>
              /\ text = Str(<<SQUARE_BRACKET_OPEN, LF, SPACE, SPACE>> \o input.el[1].s
                              \o <<LF, SQUARE_BRACKET_CLOSE>>)
              /\ Done => (outcome = "returned" /\ result = input)

\* [")"] was written with a bare ) line and read back.
C15_Witness ==
    /\ Done
    /\ input = Arr(<<Str(<<ROUND_BRACKET_CLOSE>>)>>)
    /\ text = Str(<<SQUARE_BRACKET_OPEN, LF, SPACE, SPACE, ROUND_BRACKET_CLOSE, LF,
                    SQUARE_BRACKET_CLOSE>>)
    /\ result = input

----------------------------------------------------------------------------

\* stringify was given {k: s}, s a String without a newline that needs
\* quotes.
C16_Quoted ==
    /\ stringified = "returned"
    /\ input.t = "map"
    /\ Len(input.kv) = 1
    /\ input.kv[1].v.t = "str"
    /\ ~includes(input.kv[1].v.s, LF)
    /\ needsQuotes(input.kv[1].v.s)

\* C16: the serializer's escaping is inverted by the parser's unescaping:
\* for every String s without a newline that needs quoting, the token made
\* of a double quote, escapeString(s) and a double quote is what stringify
\* writes for s, and parsing that token returns exactly s.
C16_EscapeInverse ==
    C16_Quoted =>
        LET s == input.kv[1].v.s
            token == <<DOUBLE_QUOTE_CHAR>> \o escapeString(s) \o <<DOUBLE_QUOTE_CHAR>>
        IN /\ text = Str(input.kv[1].k \o <<NAME_VALUE_SEPARATOR, SPACE>> \o token)
           /\ parseValue(token, Null) = Str(s)
           /\ Done => (outcome = "returned" /\ result = input)

----------------------------------------------------------------------------

C17_Empty == {Map(<<>>), Arr(<<>>)}

\* The token of an empty container.
C17_Token(v) ==
    IF v.t = "map" THEN <<CURLY_BRACKET_OPEN, CURLY_BRACKET_CLOSE>>
    ELSE <<SQUARE_BRACKET_OPEN, SQUARE_BRACKET_CLOSE>>

\* Wherever v holds an empty container, r holds the same one.
RECURSIVE C17_Kept(_, _)
C17_Kept(v, r) ==
    IF v \in C17_Empty THEN r = v
    ELSE IF v.t = "map"
         THEN /\ r.t = "map"
              /\ Len(r.kv) = Len(v.kv)
              /\ \A k \in 1..Len(v.kv) : C17_Kept(v.kv[k].v, r.kv[k].v)
    ELSE IF v.t = "seq"
         THEN /\ r.t = "seq"
              /\ Len(r.el) = Len(v.el)
              /\ \A k \in 1..Len(v.el) : C17_Kept(v.el[k], r.el[k])
    ELSE TRUE

\* C17: for every value tree v in which an empty Mapping or an empty
\* Sequence occurs as a mapping entry's value or as a sequence element,
\* stringify renders it as the single token {} or [], and parse(stringify(v))
\* has the empty Mapping or Sequence, not a String, at the same position.
C17_NestedEmpty ==
    (stringified = "returned" /\ Producible(input) /\ input \notin C17_Empty) =>
        /\ \A e \in C17_Empty :
              /\ input = Map(<<Entry(<<"k">>, e)>>) =>
                    text = Str(<<"k", NAME_VALUE_SEPARATOR, SPACE>> \o C17_Token(e))
              /\ input = Arr(<<e>>) =>
                    text = Str(<<SQUARE_BRACKET_OPEN, LF, SPACE, SPACE>> \o C17_Token(e)
                                 \o <<LF, SQUARE_BRACKET_CLOSE>>)
        /\ Done => (outcome = "returned" /\ C17_Kept(input, result))

----------------------------------------------------------------------------

\* parse is running one of its three loops.
C18_InLoop == pc \in {"body", "text", "trailing"}

\* The cursor stays within the lines; the body and text block loops run in
\* an activation of parseObject; a call that ended has a value or an error.
C18_Bounded ==
    /\ (C18_InLoop \/ outcome # "none") => (i >= 0 /\ i <= Len(lines))
    /\ pc \in {"body", "text"} => Len(stack) >= 1
    /\ pc = "trailing" => isContainer(result)
    /\ (pc = "done" /\ stringified # "threw") => outcome \in {"returned", "threw"}

\* What is left to do: the lines not yet read, then the loop exits.  The
\* text block loop exits into the body loop, which exits into the trailing
\* loop or the end of the call.
C18_Rank ==
    IF pc = "text" THEN 2 ELSE IF pc \in {"body", "trailing"} THEN 1 ELSE 0

C18_Measure == 3 * (Len(lines) - i) + C18_Rank

\* One step of a loop: an iteration that reads lines[i] and goes on moves
\* the cursor to i + 1; the other steps are the exits of a loop, which
\* leave the cursor where it is.  Every step lowers the measure, which is
\* never negative, and a step out of the loops ends the call.
C18_Step ==
    C18_InLoop =>
        /\ i' >= i
        /\ i' \in {i, i + 1}
        /\ i' <= Len(lines)
        /\ lines' = lines
        /\ (i < Len(lines) /\ pc' # "done") => i' = i + 1
        /\ C18_Measure' < C18_Measure
        /\ C18_Measure' >= 0
        /\ pc' \in {"body", "text", "trailing", "done"}

\* Before the loops: the entry of the call sets the cursor at or after the
\* first line and starts the body loop, or returns.
C18_Entry ==
    (pc = "parse") =>
        /\ i = 0
        /\ i' >= i
        /\ i' <= Len(lines')
        /\ pc' \in {"body", "done"}

\* C18: during any parse call the line cursor never decreases, increases by
\* one on every iteration of the container-body loop, the text-block loop
\* and the trailing-content loop, and never exceeds the number of lines;
\* so parse terminates, with a value or an error, at every nesting depth:
\* every step lowers a measure that is never negative, and the step that
\* leaves the loops ends the call.
C18_CursorTermination == []C18_Bounded /\ [][C18_Step /\ C18_Entry]_vars

\* A text block inside a nested mapping was read to its closing line: the
\* cursor is past three lines, and the call goes on.
C18_Witness ==
    /\ pc = "body"
    /\ Len(stack) = 2
    /\ i = 3
    /\ Len(lines) = 3
    /\ trim(lines[3]) = <<ROUND_BRACKET_CLOSE>>
    /\ top.obj # Map(<<>>)

----------------------------------------------------------------------------

\* The function and the steps agree on how the call of parse ends.
C12_Agree ==
    /\ parse(text).outcome = outcome
    /\ parse(text).result = result
    /\ parse(text).error.kind = error.kind

\* The lines ls without the k-th.
C12_Without(ls, k) == SubSeq(ls, 1, k - 1) \o SubSeq(ls, k + 1, Len(ls))

\* The text is as it is after a blank line or a line whose trimmed content
\* starts with # was inserted as its k-th line, not inside a text block:
\* none of the text block loops reads that line.
C12_Inserted(ls, k) == ~C13_Significant(ls[k]) /\ k \notin parse(text).tl

\* With and without such a line, parse ends the same way with the same
\* value.
C12_Invariance ==
    (Done /\ stringified # "threw" /\ isString(text)) =>
        /\ C12_Agree
        /\ \A k \in 1..Len(lines) :
              C12_Inserted(lines, k) =>
                  LET without == parse(Str(join(C12_Without(lines, k), <<LF>>)))
                  IN without.outcome = outcome /\ without.result = result

\* Inside a text block such a line is read by the text block loop: the
\* loop goes on with the line after it, in the same block.
C12_TextStep ==
    (pc = "text" /\ i < Len(lines) /\ ~C13_Significant(lines[i + 1])) =>
        (pc' = "text" /\ i' = i + 1 /\ block' = block /\ stack' = stack)

\* C12: inserting a blank line or a line whose trimmed content starts with
\* # at any position of an input that is not inside a text block changes
\* neither whether parse succeeds nor the value it returns; inside a text
\* block such lines are not comments of the body loop but lines of the
\* block.
C12_BlankAndComment == []C12_Invariance /\ [][C12_TextStep]_vars

\* A comment before the only entry and a blank line after it: {a: 1}, as
\* for the entry alone.
C12_Witness ==
    /\ Done
    /\ lines = <<<<"#", SPACE, "c">>, <<"a", ":", SPACE, "1">>, <<>>>>
    /\ outcome = "returned"
    /\ result = Map(<<Entry(<<"a">>, IntNum(1))>>)
    /\ C12_Inserted(lines, 1)
    /\ C12_Inserted(lines, 3)

====
